---- MODULE Spec2Model ----
(***************************************************************************)
(* Model of bot_db.py: the command handlers of the VIP video bot, the two  *)
(* tables they read and write (VipUser, Video), the admin check and the    *)
(* clock the handlers read.  Text values that the code inspects character  *)
(* by character (user ids, handles, ADMIN_ID, package labels) are          *)
(* sequences of one-character strings; opaque values (urls, video ids,     *)
(* reply kinds) are plain strings.                                         *)
(***************************************************************************)
EXTENDS Integers, Sequences, FiniteSets, TLC

VARIABLES
    ADMIN_ID,       \* the parsed admin identity (lines 47-58)
    vip_users,      \* rows of the VipUser table
    videos,         \* rows of the Video table
    clock,          \* time.time(), in whole seconds
    ticks,          \* clock advances between commands so far (bounds the model)
    drifted,        \* seconds that passed inside handlers so far (bounds the model)
    msg,            \* the message just handled (NoMessage after time has passed)
    sent,           \* bot.send_message calls of the latest command, in order
    raised,         \* the latest handler ended with an exception it did not catch
    db_ops,         \* store accesses (query / commit) made by the latest handler
    times,          \* <<first, last>> clock value read by the latest handler
    found,          \* rows returned by the latest handler's VipUser.query.get
    faults          \* what the transport and the store did to the latest handler

vars == <<ADMIN_ID, vip_users, videos, clock, ticks, drifted,
          msg, sent, raised, db_ops, times, found, faults>>

(***************************************************************************)
(* Bounds of the model.                                                    *)
(***************************************************************************)
T0 == 1000
MaxTicks == 1
MaxDrift == 1
MaxDays == 2

DAY == 24 * 60 * 60

(***************************************************************************)
(* Text helpers: str(), int(), str.lower(), str.lstrip(), f"{...}".        *)
(***************************************************************************)
Digits == <<"0", "1", "2", "3", "4", "5", "6", "7", "8", "9">>

IsDigit(c) == \E i \in 1..10 : Digits[i] = c

DigitVal(c) == (CHOOSE i \in 1..10 : Digits[i] = c) - 1

RECURSIVE str(_)
str(n) == IF n < 10 THEN <<Digits[n + 1]>>
          ELSE Append(str(n \div 10), Digits[(n % 10) + 1])

RECURSIVE DigitsValue(_)
DigitsValue(s) == IF Len(s) = 0 THEN 0
                  ELSE 10 * DigitsValue(SubSeq(s, 1, Len(s) - 1)) + DigitVal(s[Len(s)])

\* int(s): [ok |-> FALSE] stands for ValueError
int(s) == IF Len(s) > 0 /\ \A i \in 1..Len(s) : IsDigit(s[i])
          THEN [ok |-> TRUE, val |-> DigitsValue(s)]
          ELSE [ok |-> FALSE, val |-> 0]

LowerChar(c) == CASE c = "D" -> "d"
                  [] c = "A" -> "a"
                  [] c = "Y" -> "y"
                  [] c = "S" -> "s"
                  [] OTHER -> c

lower(s) == [i \in 1..Len(s) |-> LowerChar(s[i])]

RECURSIVE lstrip(_, _)
lstrip(s, c) == IF Len(s) > 0 /\ s[1] = c THEN lstrip(Tail(s), c) ELSE s

\* Optional text: a handle may be None, the environment variable may be unset
None == [some |-> FALSE, v |-> <<>>]
Some(s) == [some |-> TRUE, v |-> s]

\* f"{x}" of an optional text
fstr(u) == IF u.some THEN u.v ELSE <<"N", "o", "n", "e">>

(***************************************************************************)
(* Configuration.                                                          *)
(***************************************************************************)
\* lines 47-58: a text starting with '@' is kept as a handle, anything else
\* is parsed as a number, 0 when it does not parse; unset reads as '0'
ParseAdminId(env) ==
    LET admin_id_str_ == IF env.some THEN env.v ELSE <<"0">>
    IN IF Len(admin_id_str_) > 0 /\ admin_id_str_[1] = "@"
       THEN [isint |-> FALSE, n |-> 0, s |-> admin_id_str_]
       ELSE IF int(admin_id_str_).ok
            THEN [isint |-> TRUE, n |-> int(admin_id_str_).val, s |-> <<>>]
            ELSE [isint |-> TRUE, n |-> 0, s |-> <<>>]

\* variant: the 7days offer mistyped as 3 days
VIP_PACKAGES_7as3 == (<<"1", "d", "a", "y">> :> 1)
                  @@ (<<"3", "d", "a", "y", "s">> :> 3)
                  @@ (<<"7", "d", "a", "y", "s">> :> 3)
                  @@ (<<"3", "0", "d", "a", "y", "s">> :> 30)

VIP_PACKAGES == (<<"1", "d", "a", "y">> :> 1)
             @@ (<<"3", "d", "a", "y", "s">> :> 3)
             @@ (<<"7", "d", "a", "y", "s">> :> 7)
             @@ (<<"3", "0", "d", "a", "y", "s">> :> 30)

HardcodedUsername == <<"D", "s", "s", "k", "y", "7", "2", "8", "2">>

(***************************************************************************)
(* is_admin (lines 75-106).                                                *)
(***************************************************************************)
is_admin(message) ==
    LET user_id == message.from_user.id
        username == message.from_user.username
    IN IF username = Some(HardcodedUsername)
          \/ <<"@">> \o fstr(username) = <<"@">> \o HardcodedUsername
       THEN TRUE
       ELSE IF ADMIN_ID.isint
            THEN user_id = ADMIN_ID.n
            ELSE IF username.some /\ Len(username.v) > 0
                    /\ (<<"@">> \o username.v = ADMIN_ID.s
                        \/ username.v = lstrip(ADMIN_ID.s, "@"))
                 THEN TRUE
                 ELSE \/ ADMIN_ID.isint /\ ADMIN_ID.n = 0
                      \/ ~ADMIN_ID.isint /\ ADMIN_ID.s \in {<<"0">>, <<>>}

(***************************************************************************)
(* The store.                                                              *)
(***************************************************************************)
\* VipUser.query.get(key): the rows with that primary key
VipUserGet(rows, key) == {r \in rows : r.user_id = key}

VideoGet(rows, key) == {r \in rows : r.id = key}

\* VipUser.is_active()
is_active(vip_user, now) == vip_user.expiry_time > now

\* db.session.add(row); db.session.commit(): the primary key rejects a second
\* row with the same key (IntegrityError), and then nothing is stored
VipUserInsert(rows, row) ==
    IF VipUserGet(rows, row.user_id) # {}
    THEN [ok |-> FALSE, rows |-> rows]
    ELSE [ok |-> TRUE, rows |-> rows \cup {row}]

VideoInsert(rows, row) ==
    IF VideoGet(rows, row.id) # {}
    THEN [ok |-> FALSE, rows |-> rows]
    ELSE [ok |-> TRUE, rows |-> rows \cup {row}]

(***************************************************************************)
(* is_vip (lines 109-120) and get_vip_time_remaining (lines 122-140).      *)
(***************************************************************************)
\* variant: any stored row counts, expired or not
is_vip_ignoring_expiry(rows, user_id, now) ==
    LET got == VipUserGet(rows, str(user_id))
    IN IF got # {}
       THEN [status |-> TRUE, expiry_time |-> (CHOOSE r \in got : TRUE).expiry_time]
       ELSE [status |-> FALSE, expiry_time |-> 0]

\* variant: a row expiring exactly now still counts
is_vip_boundary_valid(rows, user_id, now) ==
    LET got == VipUserGet(rows, str(user_id))
    IN IF got # {} /\ (CHOOSE r \in got : TRUE).expiry_time >= now
       THEN [status |-> TRUE, expiry_time |-> (CHOOSE r \in got : TRUE).expiry_time]
       ELSE [status |-> FALSE, expiry_time |-> 0]

is_vip(rows, user_id, now) ==
    LET user_id_str == str(user_id)
        got == VipUserGet(rows, user_id_str)
    IN IF got # {} /\ is_active(CHOOSE r \in got : TRUE, now)
       THEN [status |-> TRUE, expiry_time |-> (CHOOSE r \in got : TRUE).expiry_time]
       ELSE [status |-> FALSE, expiry_time |-> 0]

\* variant: a remaining time of exactly zero is not yet "expired"
get_vip_time_remaining_zero_left(expiry_time, now) ==
    LET remaining == expiry_time - now
        days == remaining \div (24 * 3600)
        rem1 == remaining % (24 * 3600)
        hours == rem1 \div 3600
        rem2 == rem1 % 3600
        minutes == rem2 \div 60
    IN IF remaining < 0 THEN [kind |-> "expired", a |-> 0, b |-> 0]
       ELSE IF days > 0 THEN [kind |-> "days, hours", a |-> days, b |-> hours]
       ELSE IF hours > 0 THEN [kind |-> "hours, minutes", a |-> hours, b |-> minutes]
       ELSE [kind |-> "minutes", a |-> minutes, b |-> 0]

get_vip_time_remaining(expiry_time, now) ==
    LET remaining == expiry_time - now
        days == remaining \div (24 * 3600)
        rem1 == remaining % (24 * 3600)
        hours == rem1 \div 3600
        rem2 == rem1 % 3600
        minutes == rem2 \div 60
    IN IF remaining <= 0 THEN [kind |-> "expired", a |-> 0, b |-> 0]
       ELSE IF days > 0 THEN [kind |-> "days, hours", a |-> days, b |-> hours]
       ELSE IF hours > 0 THEN [kind |-> "hours, minutes", a |-> hours, b |-> minutes]
       ELSE [kind |-> "minutes", a |-> minutes, b |-> 0]

(***************************************************************************)
(* The transport.  net.chat[k] tells whether the k-th bot.send_message to  *)
(* the sender's chat within one handler succeeds, net.user whether the     *)
(* notified user can be reached.  A failed send raises.  net.db is the     *)
(* position of the handler's store access (query, commit) that raises, 0   *)
(* when the store works.                                                   *)
(***************************************************************************)
Msg(to, text, data, ok) == [to |-> to, text |-> text, data |-> data, ok |-> ok]

NoData == [none |-> TRUE]

Outcome(rows, vids, out, exc, ops, got, now) ==
    [vip_users |-> rows, videos |-> vids, sent |-> out, raised |-> exc,
     db_ops |-> ops, found |-> got, now |-> now]

\* a store access that raises outside any try: the handler ends there
StoreError(rows, vids, ops, got) == Outcome(rows, vids, <<>>, TRUE, ops, got, clock)

\* a handler whose only transport call is one reply to the chat, outside any try
Reply(message, rows, vids, text, data, ops, got, now, net) ==
    Outcome(rows, vids, <<Msg(message.chat_id, text, data, net.chat[1])>>,
            ~net.chat[1], ops, got, now)

\* the usual admin gate of lines 206-208, 244-246, 354-356, 381-383, 408-410, 449-451
AdminOnly(message, rows, vids, now, net) ==
    Reply(message, rows, vids, "admin_only", NoData, 0, {}, now, net)

(***************************************************************************)
(* handle_start (lines 143-200).  t1 is the clock read by is_active inside *)
(* is_vip, t2 the clock read by get_vip_time_remaining.                    *)
(***************************************************************************)
\* variant: the deep link checks the sender's entitlement before the video
handle_start_vip_first(message, rows, vids, t1, t2, net) ==
    LET user_id == message.from_user.id
        args == message.args
        vip == is_vip(rows, user_id, t1)
        got == VipUserGet(rows, str(user_id))
    IN IF net.db = 1
       THEN StoreError(rows, vids, 1, {})
       ELSE IF Len(args) > 1
       THEN LET video == VideoGet(vids, args[2])
            IN IF ~vip.status
               THEN Reply(message, rows, vids, "payment_required", NoData,
                          1, got, t1, net)
               ELSE IF net.db = 2
               THEN StoreError(rows, vids, 2, got)
               ELSE IF video # {}
               THEN Reply(message, rows, vids, "video",
                          [url |-> (CHOOSE v \in video : TRUE).url,
                           remaining |-> get_vip_time_remaining(vip.expiry_time, t2)],
                          2, got, t2, net)
               ELSE Reply(message, rows, vids, "invalid_link", NoData, 2, got, t1, net)
       ELSE IF vip.status
       THEN Reply(message, rows, vids, "welcome",
                  [vip |-> TRUE,
                   remaining |-> get_vip_time_remaining(vip.expiry_time, t2)],
                  1, got, t2, net)
       ELSE Reply(message, rows, vids, "welcome",
                  [vip |-> FALSE, remaining |-> NoData], 1, got, t1, net)

handle_start(message, rows, vids, t1, t2, net) ==
    LET user_id == message.from_user.id
        args == message.args
    IN IF Len(args) > 1
       THEN LET video_id == args[2]
                video == VideoGet(vids, video_id)
            IN IF net.db = 1
               THEN StoreError(rows, vids, 1, {})
               ELSE IF video # {}
               THEN LET vip == is_vip(rows, user_id, t1)
                        got == VipUserGet(rows, str(user_id))
                    IN IF net.db = 2
                       THEN StoreError(rows, vids, 2, {})
                       ELSE IF vip.status
                       THEN Reply(message, rows, vids, "video",
                                  [url |-> (CHOOSE v \in video : TRUE).url,
                                   remaining |-> get_vip_time_remaining(vip.expiry_time, t2)],
                                  2, got, t2, net)
                       ELSE Reply(message, rows, vids, "payment_required", NoData,
                                  2, got, t1, net)
               ELSE Reply(message, rows, vids, "invalid_link", NoData, 1, {}, clock, net)
       ELSE LET vip == is_vip(rows, user_id, t1)
                got == VipUserGet(rows, str(user_id))
            IN IF net.db = 1
               THEN StoreError(rows, vids, 1, {})
               ELSE IF vip.status
               THEN Reply(message, rows, vids, "welcome",
                          [vip |-> TRUE,
                           remaining |-> get_vip_time_remaining(vip.expiry_time, t2)],
                          1, got, t2, net)
               ELSE Reply(message, rows, vids, "welcome",
                          [vip |-> FALSE, remaining |-> NoData], 1, got, t1, net)

(***************************************************************************)
(* handle_add_video (lines 203-238).  video_id is the uuid prefix drawn at *)
(* line 219.  A colliding id fails the commit; nothing catches it.         *)
(***************************************************************************)
\* variant: a colliding id takes over the row that is there (session.merge)
handle_add_video_upsert(message, rows, vids, video_id, net) ==
    IF ~is_admin(message)
    THEN AdminOnly(message, rows, vids, clock, net)
    ELSE IF Len(message.args) < 2
    THEN Reply(message, rows, vids, "usage", NoData, 0, {}, clock, net)
    ELSE LET video_url == message.args[2]
             kept == {v \in vids : v.id # video_id}
         IN IF net.db = 1
            THEN StoreError(rows, vids, 1, {})
            ELSE Reply(message, rows, kept \cup {[id |-> video_id, url |-> video_url]},
                       "video_added", [id |-> video_id, url |-> video_url],
                       1, {}, clock, net)

handle_add_video(message, rows, vids, video_id, net) ==
    IF ~is_admin(message)
    THEN AdminOnly(message, rows, vids, clock, net)
    ELSE IF Len(message.args) < 2
    THEN Reply(message, rows, vids, "usage", NoData, 0, {}, clock, net)
    ELSE LET video_url == message.args[2]
             ins == VideoInsert(vids, [id |-> video_id, url |-> video_url])
         IN IF ~ins.ok \/ net.db = 1
            THEN StoreError(rows, vids, 1, {})
            ELSE Reply(message, rows, ins.rows, "video_added",
                       [id |-> video_id, url |-> video_url], 1, {}, clock, net)

(***************************************************************************)
(* handle_set_vip (lines 241-317).  t1 is current_time (line 271), t2 the  *)
(* clock read by is_active (line 278).                                     *)
(***************************************************************************)
\* variant: the extend branch overwrites expiry_time instead of taking the max
SetVipStoreOverwrite(rows, target_user_id, package, expiry_time, t2) ==
    LET got == VipUserGet(rows, target_user_id)
        vip_user == CHOOSE r \in got : TRUE
    IN IF got # {} /\ is_active(vip_user, t2)
       THEN [ok |-> TRUE,
             rows |-> (rows \ {vip_user}) \cup
                      {[user_id |-> vip_user.user_id, expiry_time |-> expiry_time,
                        package |-> package]}]
       ELSE VipUserInsert(rows, [user_id |-> target_user_id,
                                 expiry_time |-> expiry_time,
                                 package |-> package])

\* variant: the extend branch stores a second row instead of updating the first
SetVipStoreSecondRow(rows, target_user_id, package, expiry_time, t2) ==
    LET got == VipUserGet(rows, target_user_id)
        vip_user == CHOOSE r \in got : TRUE
    IN IF got # {} /\ is_active(vip_user, t2)
       THEN [ok |-> TRUE,
             rows |-> rows \cup
                      {[user_id |-> vip_user.user_id,
                        expiry_time |-> vip_user.expiry_time + expiry_time,
                        package |-> package]}]
       ELSE VipUserInsert(rows, [user_id |-> target_user_id,
                                 expiry_time |-> expiry_time,
                                 package |-> package])

\* variant: the extend branch keeps the label that goes with the kept expiry
SetVipStoreKeepsLabel(rows, target_user_id, package, expiry_time, t2) ==
    LET got == VipUserGet(rows, target_user_id)
        vip_user == CHOOSE r \in got : TRUE
    IN IF got # {} /\ is_active(vip_user, t2)
       THEN [ok |-> TRUE,
             rows |-> (rows \ {vip_user}) \cup
                      {IF vip_user.expiry_time >= expiry_time
                       THEN vip_user
                       ELSE [user_id |-> vip_user.user_id,
                             expiry_time |-> expiry_time,
                             package |-> package]}]
       ELSE VipUserInsert(rows, [user_id |-> target_user_id,
                                 expiry_time |-> expiry_time,
                                 package |-> package])

\* lines 274-287: the rows after the block, or the failed commit
SetVipStore(rows, target_user_id, package, expiry_time, t2) ==
    LET got == VipUserGet(rows, target_user_id)
        vip_user == CHOOSE r \in got : TRUE
    IN IF got # {} /\ is_active(vip_user, t2)
       THEN [ok |-> TRUE,
             rows |-> (rows \ {vip_user}) \cup
                      {[user_id |-> vip_user.user_id,
                        expiry_time |-> IF vip_user.expiry_time >= expiry_time
                                        THEN vip_user.expiry_time ELSE expiry_time,
                        package |-> package]}]
       ELSE VipUserInsert(rows, [user_id |-> target_user_id,
                                 expiry_time |-> expiry_time,
                                 package |-> package])

\* variant: the notification is sent outside the inner try
SetVipSendsUnguarded(message, target_user_id, package, days, expiry_time, net) ==
    LET chat == message.chat_id
        conf == Msg(chat, "vip_set",
                    [user |-> target_user_id, package |-> package, days |-> days,
                     expiry |-> expiry_time], net.chat[1])
        uid == int(target_user_id)
        note == Msg(uid.val, "vip_granted",
                    [days |-> days, expiry |-> expiry_time], net.user)
        err == Msg(chat, "error_setting_vip", NoData, net.chat[2])
    IN IF ~net.chat[1]
       THEN [sent |-> <<conf, err>>, raised |-> ~net.chat[2]]
       ELSE IF uid.ok /\ net.user
       THEN [sent |-> <<conf, note>>, raised |-> FALSE]
       ELSE [sent |-> IF uid.ok THEN <<conf, note, err>> ELSE <<conf, err>>,
             raised |-> ~net.chat[2]]

\* lines 292-317: the sends after a successful commit
SetVipSends(message, target_user_id, package, days, expiry_time, net) ==
    LET chat == message.chat_id
        conf == Msg(chat, "vip_set",
                    [user |-> target_user_id, package |-> package, days |-> days,
                     expiry |-> expiry_time], net.chat[1])
        uid == int(target_user_id)
        note == Msg(uid.val, "vip_granted",
                    [days |-> days, expiry |-> expiry_time], net.user)
        warn == Msg(chat, "could_not_notify", NoData, net.chat[2])
    IN IF ~net.chat[1]
       THEN [sent |-> <<conf, Msg(chat, "error_setting_vip", NoData, net.chat[2])>>,
             raised |-> ~net.chat[2]]
       ELSE IF uid.ok /\ net.user
       THEN [sent |-> <<conf, note>>, raised |-> FALSE]
       ELSE LET tried == IF uid.ok THEN <<conf, note, warn>> ELSE <<conf, warn>>
            IN IF net.chat[2]
               THEN [sent |-> tried, raised |-> FALSE]
               ELSE [sent |-> Append(tried, Msg(chat, "error_setting_vip", NoData,
                                                net.chat[3])),
                     raised |-> ~net.chat[3]]

handle_set_vip(message, rows, vids, t1, t2, net) ==
    IF ~is_admin(message)
    THEN AdminOnly(message, rows, vids, clock, net)
    ELSE IF Len(message.args) < 3
    THEN Reply(message, rows, vids, "usage", NoData, 0, {}, clock, net)
    ELSE LET target_user_id == message.args[2]
             package == lower(message.args[3])
         IN IF package \notin DOMAIN VIP_PACKAGES
            THEN Reply(message, rows, vids, "invalid_package", NoData, 0, {}, clock, net)
            ELSE LET days == VIP_PACKAGES[package]
                     current_time == t1
                     expiry_time == current_time + (days * 24 * 60 * 60)
                     got == VipUserGet(rows, target_user_id)
                     st == SetVipStore(rows, target_user_id, package, expiry_time, t2)
                     now == IF got # {} THEN t2 ELSE t1
                     err == <<Msg(message.chat_id, "error_setting_vip", NoData,
                                  net.chat[1])>>
                 IN IF net.db = 1
                    THEN Outcome(rows, vids, err, ~net.chat[1], 1, {}, t1)
                    ELSE IF ~st.ok \/ net.db = 2
                    THEN Outcome(rows, vids, err, ~net.chat[1], 2, got, now)
                    ELSE LET s == SetVipSends(message, target_user_id, package, days,
                                              expiry_time, net)
                         IN Outcome(st.rows, vids, s.sent, s.raised, 2, got, now)

\* variant: /vipstatus drops the sender's row once it has expired
handle_vip_status_purging(message, rows, vids, t1, t2, net) ==
    LET user_id == message.from_user.id
        vip == is_vip(rows, user_id, t1)
        got == VipUserGet(rows, str(user_id))
    IN IF vip.status
       THEN Reply(message, rows, vids, "vip_active",
                  [remaining |-> get_vip_time_remaining(vip.expiry_time, t2),
                   expiry |-> vip.expiry_time], 1, got, t2, net)
       ELSE Reply(message, rows \ got, vids, "not_vip", NoData, 1, got, t1, net)

(***************************************************************************)
(* handle_vip_status (lines 320-348).                                      *)
(***************************************************************************)
\* variant: a store that cannot be read counts as "no entitlement"
handle_vip_status_fail_closed(message, rows, vids, t1, t2, net) ==
    LET user_id == message.from_user.id
        vip == is_vip(rows, user_id, t1)
        got == VipUserGet(rows, str(user_id))
    IN IF net.db = 1
       THEN Reply(message, rows, vids, "not_vip", NoData, 1, {}, t1, net)
       ELSE IF vip.status
       THEN Reply(message, rows, vids, "vip_active",
                  [remaining |-> get_vip_time_remaining(vip.expiry_time, t2),
                   expiry |-> vip.expiry_time], 1, got, t2, net)
       ELSE Reply(message, rows, vids, "not_vip", NoData, 1, got, t1, net)

handle_vip_status(message, rows, vids, t1, t2, net) ==
    LET user_id == message.from_user.id
        vip == is_vip(rows, user_id, t1)
        got == VipUserGet(rows, str(user_id))
    IN IF net.db = 1
       THEN StoreError(rows, vids, 1, {})
       ELSE IF vip.status
       THEN Reply(message, rows, vids, "vip_active",
                  [remaining |-> get_vip_time_remaining(vip.expiry_time, t2),
                   expiry |-> vip.expiry_time], 1, got, t2, net)
       ELSE Reply(message, rows, vids, "not_vip", NoData, 1, got, t1, net)

(***************************************************************************)
(* handle_list_videos (lines 351-375).                                     *)
(***************************************************************************)
handle_list_videos(message, rows, vids, net) ==
    IF ~is_admin(message)
    THEN AdminOnly(message, rows, vids, clock, net)
    ELSE IF net.db = 1
    THEN StoreError(rows, vids, 1, {})
    ELSE IF vids = {}
    THEN Reply(message, rows, vids, "no_videos", NoData, 1, {}, clock, net)
    ELSE Reply(message, rows, vids, "video_list", [videos |-> vids], 1, {}, clock, net)

\* variant: /delvideo without the admin gate
handle_del_video_ungated(message, rows, vids, net) ==
    IF Len(message.args) < 2
    THEN Reply(message, rows, vids, "usage", NoData, 0, {}, clock, net)
    ELSE LET video_id == message.args[2]
             video == VideoGet(vids, video_id)
         IN IF video # {}
            THEN Reply(message, rows, vids \ video, "video_deleted",
                       [id |-> video_id], 2, {}, clock, net)
            ELSE Reply(message, rows, vids, "video_not_found",
                       [id |-> video_id], 1, {}, clock, net)

(***************************************************************************)
(* handle_del_video (lines 378-402).                                       *)
(***************************************************************************)
\* variant: /delvideo hands whatever the query returned to db.session.delete
handle_del_video_unchecked(message, rows, vids, net) ==
    IF ~is_admin(message)
    THEN AdminOnly(message, rows, vids, clock, net)
    ELSE IF Len(message.args) < 2
    THEN Reply(message, rows, vids, "usage", NoData, 0, {}, clock, net)
    ELSE LET video_id == message.args[2]
             video == VideoGet(vids, video_id)
         IN IF net.db = 1
            THEN StoreError(rows, vids, 1, {})
            ELSE IF video = {} \/ net.db = 2
            THEN StoreError(rows, vids, 2, {})
            ELSE Reply(message, rows, vids \ video, "video_deleted",
                       [id |-> video_id], 2, {}, clock, net)

handle_del_video(message, rows, vids, net) ==
    IF ~is_admin(message)
    THEN AdminOnly(message, rows, vids, clock, net)
    ELSE IF Len(message.args) < 2
    THEN Reply(message, rows, vids, "usage", NoData, 0, {}, clock, net)
    ELSE LET video_id == message.args[2]
             video == VideoGet(vids, video_id)
         IN IF net.db = 1
            THEN StoreError(rows, vids, 1, {})
            ELSE IF video # {} /\ net.db = 2
            THEN StoreError(rows, vids, 2, {})
            ELSE IF video # {}
            THEN Reply(message, rows, vids \ video, "video_deleted",
                       [id |-> video_id], 2, {}, clock, net)
            ELSE Reply(message, rows, vids, "video_not_found",
                       [id |-> video_id], 1, {}, clock, net)

(***************************************************************************)
(* handle_list_vip (lines 405-443).  t1 is current_time (line 424), t2 the *)
(* clock read by the get_vip_time_remaining calls of the loop.             *)
(***************************************************************************)
\* variant: /listvip counts a row as active up to and including its expiry time
handle_list_vip_inclusive(message, rows, vids, t1, t2, net) ==
    IF ~is_admin(message)
    THEN AdminOnly(message, rows, vids, clock, net)
    ELSE IF net.db = 1
    THEN StoreError(rows, vids, 1, {})
    ELSE IF rows = {}
    THEN Reply(message, rows, vids, "no_vip_users", NoData, 1, {}, clock, net)
    ELSE LET active == {user \in rows : user.expiry_time >= t1}
             entry(user) ==
                 IF user \in active
                 THEN [user_id |-> user.user_id, status |-> "Active",
                       remaining |-> get_vip_time_remaining(user.expiry_time, t2),
                       expiry |-> user.expiry_time]
                 ELSE [user_id |-> user.user_id, status |-> "Expired",
                       remaining |-> NoData, expiry |-> user.expiry_time]
         IN Reply(message, rows, vids, "vip_list",
                  [entries |-> {entry(user) : user \in rows},
                   active_count |-> Cardinality(active),
                   expired_count |-> Cardinality(rows \ active)],
                  1, {}, IF active # {} THEN t2 ELSE t1, net)

handle_list_vip(message, rows, vids, t1, t2, net) ==
    IF ~is_admin(message)
    THEN AdminOnly(message, rows, vids, clock, net)
    ELSE IF net.db = 1
    THEN StoreError(rows, vids, 1, {})
    ELSE IF rows = {}
    THEN Reply(message, rows, vids, "no_vip_users", NoData, 1, {}, clock, net)
    ELSE LET active == {user \in rows : user.expiry_time > t1}
             entry(user) ==
                 IF user \in active
                 THEN [user_id |-> user.user_id, status |-> "Active",
                       remaining |-> get_vip_time_remaining(user.expiry_time, t2),
                       expiry |-> user.expiry_time]
                 ELSE [user_id |-> user.user_id, status |-> "Expired",
                       remaining |-> NoData, expiry |-> user.expiry_time]
         IN Reply(message, rows, vids, "vip_list",
                  [entries |-> {entry(user) : user \in rows},
                   active_count |-> Cardinality(active),
                   expired_count |-> Cardinality(rows \ active)],
                  1, {}, IF active # {} THEN t2 ELSE t1, net)

(***************************************************************************)
(* handle_remove_vip (lines 446-485).                                      *)
(***************************************************************************)
handle_remove_vip(message, rows, vids, net) ==
    IF ~is_admin(message)
    THEN AdminOnly(message, rows, vids, clock, net)
    ELSE IF Len(message.args) < 2
    THEN Reply(message, rows, vids, "usage", NoData, 0, {}, clock, net)
    ELSE LET target_user_id == message.args[2]
             chat == message.chat_id
             got == VipUserGet(rows, target_user_id)
             err == Msg(chat, "error_removing_vip", NoData, net.chat[2])
             uid == int(target_user_id)
             err1 == <<Msg(chat, "error_removing_vip", NoData, net.chat[1])>>
         IN IF net.db = 1
            THEN Outcome(rows, vids, err1, ~net.chat[1], 1, {}, clock)
            ELSE IF got # {} /\ net.db = 2
            THEN Outcome(rows, vids, err1, ~net.chat[1], 2, got, clock)
            ELSE IF got # {}
            THEN LET conf == Msg(chat, "vip_removed", [user |-> target_user_id],
                                 net.chat[1])
                     note == Msg(uid.val, "vip_revoked", NoData, net.user)
                 IN IF ~net.chat[1]
                    THEN Outcome(rows \ got, vids, <<conf, err>>, ~net.chat[2],
                                 2, got, clock)
                    ELSE Outcome(rows \ got, vids,
                                 IF uid.ok THEN <<conf, note>> ELSE <<conf>>,
                                 FALSE, 2, got, clock)
            ELSE LET nf == Msg(chat, "no_vip_status", [user |-> target_user_id],
                               net.chat[1])
                 IN IF ~net.chat[1]
                    THEN Outcome(rows, vids, <<nf, err>>, ~net.chat[2], 1, got, clock)
                    ELSE Outcome(rows, vids, <<nf>>, FALSE, 1, got, clock)

(***************************************************************************)
(* handle_help (lines 488-506) and handle_unknown_command (lines 509-514). *)
(***************************************************************************)
handle_help(message, rows, vids, net) ==
    Reply(message, rows, vids, "help", [admin |-> is_admin(message)], 0, {}, clock, net)

handle_unknown_command(message, rows, vids, net) ==
    Reply(message, rows, vids, "unknown_command", NoData, 0, {}, clock, net)

(***************************************************************************)
(* Inputs: who sends, what the arguments are, what the transport does.     *)
(***************************************************************************)
User(id, username) == [id |-> id, username |-> username]

Admin1 == User(1, None)
User42 == User(42, Some(<<"b">>))
User99 == User(99, Some(HardcodedUsername))

Pkg1day == <<"1", "d", "a", "y">>
Pkg7DAYS == <<"7", "D", "A", "Y", "S">>
Pkg2days == <<"2", "d", "a", "y", "s">>

\* a send after a failed one is only made by an except block, so the
\* outcomes a handler can tell apart are these
Net(c1, c2, c3, u) == [chat |-> <<c1, c2, c3>>, user |-> u, db |-> 0]

NoFaults == Net(TRUE, TRUE, TRUE, TRUE)

\* the k-th store access of the handler raises; the transport works
NetDb(k) == [chat |-> <<TRUE, TRUE, TRUE>>, user |-> TRUE, db |-> k]

NetsOk == {NoFaults}

Nets == NetsOk \cup {Net(FALSE, TRUE, TRUE, TRUE),
                     Net(FALSE, FALSE, TRUE, TRUE),
                     Net(TRUE, TRUE, TRUE, FALSE),
                     Net(TRUE, FALSE, TRUE, FALSE),
                     Net(TRUE, FALSE, FALSE, FALSE)}

DbFaults == {NetDb(1), NetDb(2)}

TickSteps == {DAY - 1}

\* seconds that pass between two clock reads of one handler
DriftSteps == {0, 1}

\* The dispatcher with ADMIN_ID=1, an admin and a user, two grantable
\* user ids (one of them not a number), two durations, a working transport.
CoreScope ==
    [envs |-> {Some(<<"1">>)},
     senders |-> {Admin1, User42},
     targets |-> {<<"4", "2">>, <<"x">>},
     packages |-> {Pkg1day, Pkg7DAYS},
     video_ids |-> {"a1f3c2d9"},
     video_args |-> {"a1f3c2d9", "deadbeef"},
     urls |-> {"https://v/1"},
     drifts |-> DriftSteps,
     nets |-> NetsOk]

\* Every way ADMIN_ID can be configured (unset, a number, a handle, text
\* that does not parse) against every kind of sender.
AdminScope ==
    [envs |-> {None, Some(<<"1">>), Some(<<"@", "b">>), Some(<<"x">>)},
     senders |-> {Admin1, User42, User99},
     targets |-> {<<"4", "2">>},
     packages |-> {Pkg1day, Pkg2days},
     video_ids |-> {"a1f3c2d9"},
     video_args |-> {"a1f3c2d9"},
     urls |-> {"https://v/1"},
     drifts |-> {0},
     nets |-> NetsOk]

\* The admin and a user while sends fail (to the admin's chat, to the
\* notified user) and store accesses raise.
FaultScope ==
    [envs |-> {Some(<<"1">>)},
     senders |-> {Admin1, User42},
     targets |-> {<<"4", "2">>, <<"x">>},
     packages |-> {Pkg1day},
     video_ids |-> {"a1f3c2d9"},
     video_args |-> {"a1f3c2d9"},
     urls |-> {"https://v/1"},
     drifts |-> {0},
     nets |-> Nets \cup DbFaults]

\* The registry: two ids the uuid prefix can come out as, two urls.
VideoScope ==
    [envs |-> {Some(<<"1">>)},
     senders |-> {Admin1, User42},
     targets |-> {<<"4", "2">>},
     packages |-> {Pkg1day},
     video_ids |-> {"a1f3c2d9", "0b7e55aa"},
     video_args |-> {"a1f3c2d9", "0b7e55aa"},
     urls |-> {"https://v/1", "https://v/2"},
     drifts |-> {0},
     nets |-> NetsOk]

\* message.text.split() of a message in a private chat
Message(cmd, sender, rest) ==
    [cmd |-> cmd, from_user |-> sender, chat_id |-> sender.id,
     args |-> <<cmd>> \o rest]

NoMessage == Message("", User(0, None), <<>>)

(***************************************************************************)
(* The state machine.                                                      *)
(***************************************************************************)
InitOf(sc) ==
    /\ \E admin_id_str \in sc.envs : ADMIN_ID = ParseAdminId(admin_id_str)
    /\ vip_users = {}
    /\ videos = {}
    /\ clock = T0
    /\ ticks = 0
    /\ drifted = 0
    /\ msg = NoMessage
    /\ sent = <<>>
    /\ raised = FALSE
    /\ db_ops = 0
    /\ times = <<T0, T0>>
    /\ found = {}
    /\ faults = NoFaults

\* the handler's effect on the store, the transport and the clock it read
Apply(message, net, out) ==
    /\ drifted + (out.now - clock) <= MaxDrift
    /\ msg' = message
    /\ faults' = net
    /\ vip_users' = out.vip_users
    /\ videos' = out.videos
    /\ sent' = out.sent
    /\ raised' = out.raised
    /\ db_ops' = out.db_ops
    /\ found' = out.found
    /\ times' = <<clock, out.now>>
    /\ clock' = out.now
    /\ drifted' = drifted + (out.now - clock)
    /\ UNCHANGED <<ADMIN_ID, ticks>>

Start(sc) ==
    \E sender \in sc.senders, rest \in {<<>>} \cup {<<v>> : v \in sc.video_args},
       drift \in sc.drifts, net \in sc.nets :
        LET message == Message("/start", sender, rest)
        IN Apply(message, net, handle_start(message, vip_users, videos,
                                       clock, clock + drift, net))

AddVideo(sc) ==
    \E sender \in sc.senders, rest \in {<<>>} \cup {<<u>> : u \in sc.urls},
       video_id \in sc.video_ids, net \in sc.nets :
        LET message == Message("/addvideo", sender, rest)
        IN Apply(message, net, handle_add_video(message, vip_users, videos, video_id, net))

SetVip(sc) ==
    \E sender \in sc.senders,
       rest \in {<<>>} \cup {<<t, p>> : t \in sc.targets, p \in sc.packages},
       drift \in sc.drifts, net \in sc.nets :
        LET message == Message("/setvip", sender, rest)
        IN Apply(message, net, handle_set_vip(message, vip_users, videos,
                                         clock, clock + drift, net))

VipStatus(sc) ==
    \E sender \in sc.senders, drift \in sc.drifts, net \in sc.nets :
        LET message == Message("/vipstatus", sender, <<>>)
        IN Apply(message, net, handle_vip_status(message, vip_users, videos,
                                            clock, clock + drift, net))

ListVideos(sc) ==
    \E sender \in sc.senders, net \in sc.nets :
        LET message == Message("/listvideos", sender, <<>>)
        IN Apply(message, net, handle_list_videos(message, vip_users, videos, net))

DelVideo(sc) ==
    \E sender \in sc.senders, rest \in {<<>>} \cup {<<v>> : v \in sc.video_args},
       net \in sc.nets :
        LET message == Message("/delvideo", sender, rest)
        IN Apply(message, net, handle_del_video(message, vip_users, videos, net))

ListVip(sc) ==
    \E sender \in sc.senders, drift \in sc.drifts, net \in sc.nets :
        LET message == Message("/listvip", sender, <<>>)
        IN Apply(message, net, handle_list_vip(message, vip_users, videos,
                                          clock, clock + drift, net))

RemoveVip(sc) ==
    \E sender \in sc.senders, rest \in {<<>>} \cup {<<t>> : t \in sc.targets},
       net \in sc.nets :
        LET message == Message("/removevip", sender, rest)
        IN Apply(message, net, handle_remove_vip(message, vip_users, videos, net))

Help(sc) ==
    \E sender \in sc.senders, net \in sc.nets :
        LET message == Message("/help", sender, <<>>)
        IN Apply(message, net, handle_help(message, vip_users, videos, net))

UnknownCommand(sc) ==
    \E sender \in sc.senders, net \in sc.nets :
        LET message == Message("/foo", sender, <<>>)
        IN Apply(message, net, handle_unknown_command(message, vip_users, videos, net))

\* time passes between two commands
Tick ==
    \E step \in TickSteps :
        /\ ticks < MaxTicks
        /\ clock' = clock + step
        /\ ticks' = ticks + 1
        /\ msg' = NoMessage
        /\ sent' = <<>>
        /\ raised' = FALSE
        /\ db_ops' = 0
        /\ times' = <<clock', clock'>>
        /\ found' = {}
        /\ faults' = NoFaults
        /\ UNCHANGED <<ADMIN_ID, vip_users, videos, drifted>>

NextOf(sc) ==
    \/ Start(sc)
    \/ AddVideo(sc)
    \/ SetVip(sc)
    \/ VipStatus(sc)
    \/ ListVideos(sc)
    \/ DelVideo(sc)
    \/ ListVip(sc)
    \/ RemoveVip(sc)
    \/ Help(sc)
    \/ UnknownCommand(sc)
    \/ Tick

Init == InitOf(CoreScope)
Next == NextOf(CoreScope)
Spec == Init /\ [][Next]_vars

InitAdmin == InitOf(AdminScope)
NextAdmin == NextOf(AdminScope)
SpecAdmin == InitAdmin /\ [][NextAdmin]_vars

InitVideo == InitOf(VideoScope)
NextVideo == NextOf(VideoScope)
SpecVideo == InitVideo /\ [][NextVideo]_vars

InitFaults == InitOf(FaultScope)
NextFaults == NextOf(FaultScope)
SpecFaults == InitFaults /\ [][NextFaults]_vars

(***************************************************************************)
(* get_vip_time_remaining on its own (lines 122-140): expiry times on both *)
(* sides of the clock, chosen so that every branch and every carry between *)
(* days, hours and minutes occurs.                                         *)
(***************************************************************************)
RemainingSamples ==
    {d * 86400 + h * 3600 + m * 60 + s :
        d \in 0..MaxDays, h \in {0, 1, 23}, m \in {0, 1, 30, 59}, s \in {0, 45, 59}}
    \cup {-5, -1, -86400}

TimeRemaining ==
    \E remaining \in RemainingSamples :
        LET expiry_time == clock + remaining
        IN /\ msg' = Message("get_vip_time_remaining", User(0, None), <<>>)
           /\ sent' = <<Msg(0, "time_remaining",
                            [expiry_time |-> expiry_time,
                             text |-> get_vip_time_remaining(expiry_time, clock)],
                            TRUE)>>
           /\ times' = <<clock, clock>>
           /\ UNCHANGED <<ADMIN_ID, vip_users, videos, clock, ticks, drifted,
                          raised, db_ops, found, faults>>

SpecRemaining == Init /\ [][TimeRemaining]_vars

(***************************************************************************)
(* Vocabulary of the properties.  These read the observable result of the  *)
(* command just handled: msg, sent, the two tables, the clock values read. *)
(***************************************************************************)
Mutating == {"/setvip", "/removevip", "/addvideo", "/delvideo"}

\* the first reply of the command just handled
FirstReply == IF Len(sent) > 0 THEN sent[1].text ELSE ""

\* the duration table as the specification states it, on the raw argument
OfferedDays(arg) == CASE arg = Pkg1day -> 1
                      [] arg = Pkg7DAYS -> 7
                      [] OTHER -> 0

OfferedLabel(arg) == CASE arg = Pkg1day -> <<"1", "d", "a", "y">>
                       [] arg = Pkg7DAYS -> <<"7", "d", "a", "y", "s">>
                       [] OTHER -> <<>>

\* an authorized /setvip <userId> <package> with a package of the table
GrantRan == /\ msg.cmd = "/setvip"
            /\ Len(msg.args) >= 3
            /\ FirstReply \notin {"admin_only", "usage", "invalid_package"}

GrantTarget == msg.args[2]
GrantExpiry == times[1] + OfferedDays(msg.args[3]) * 86400
OldRow == CHOOSE r \in found : TRUE

RowsOf(user_id) == {r \in vip_users : r.user_id = user_id}

\* the text key of a numeric sender id
KeyOf(id) == CASE id = 1 -> <<"1">>
               [] id = 42 -> <<"4", "2">>
               [] id = 99 -> <<"9", "9">>
               [] OTHER -> <<>>

Max(a, b) == IF a >= b THEN a ELSE b

(***************************************************************************)
(* C1: a /start <contentId> reply carries a locator only if that content   *)
(* item is in the registry and the sender has a stored entitlement with    *)
(* expiresAt > now (the time the handler read); with an existing item and  *)
(* no such entitlement the reply is the payment instructions.              *)
(***************************************************************************)
C1_LocatorOnlyForValidVip ==
    msg.cmd = "/start" =>
        LET valid == {r \in RowsOf(KeyOf(msg.from_user.id)) : r.expiry_time > times[1]}
            item == IF Len(msg.args) > 1
                    THEN {v \in videos : v.id = msg.args[2]} ELSE {}
        IN /\ \A i \in 1..Len(sent) :
                sent[i].text = "video" =>
                    /\ valid # {}
                    /\ \E v \in item : v.url = sent[i].data.url
           /\ (item # {} /\ valid = {}) =>
                /\ Len(sent) = 1
                /\ sent[1].text = "payment_required"
                /\ sent[1].to = msg.chat_id

C1_Witness ==
    /\ msg.cmd = "/start"
    /\ FirstReply = "video"
    /\ \E v \in videos : v.url = sent[1].data.url
    /\ \E r \in RowsOf(KeyOf(msg.from_user.id)) : r.expiry_time > times[1]

(***************************************************************************)
(* C2: when the sender fails the admin check, /setvip, /removevip,         *)
(* /addvideo and /delvideo reply with the admin-only rejection, leave both *)
(* tables as they were and make no store access.                           *)
(***************************************************************************)
C2_UnauthorizedLeavesStore ==
    [][(msg'.cmd \in Mutating /\ ~is_admin(msg')) =>
            /\ Len(sent') = 1
            /\ sent'[1].text = "admin_only"
            /\ sent'[1].to = msg'.chat_id
            /\ vip_users' = vip_users
            /\ videos' = videos
            /\ db_ops' = 0]_vars

C2_Witness ==
    /\ msg.cmd \in Mutating
    /\ ~is_admin(msg)
    /\ FirstReply = "admin_only"
    /\ vip_users # {}
    /\ videos # {}

(***************************************************************************)
(* C3: with a non-zero numeric admin id configured a sender is authorized  *)
(* exactly when the sender's id equals it, whatever the sender's handle;   *)
(* with a handle configured, exactly when the sender's handle matches it.  *)
(***************************************************************************)
C3_OnlyConfiguredAdmin ==
    msg.cmd \in Mutating =>
        LET authorized == FirstReply # "admin_only"
            username == msg.from_user.username
        IN /\ (ADMIN_ID.isint /\ ADMIN_ID.n # 0) =>
                (authorized <=> msg.from_user.id = ADMIN_ID.n)
           /\ ~ADMIN_ID.isint =>
                (authorized <=> (username.some /\ <<"@">> \o username.v = ADMIN_ID.s))

(***************************************************************************)
(* C4: with no admin identity configured (the configured value is 0) every *)
(* sender is authorized, so nobody gets the admin-only rejection.          *)
(***************************************************************************)
C4_OpenAdmissionWhenUnconfigured ==
    (ADMIN_ID.isint /\ ADMIN_ID.n = 0 /\ msg.cmd \in Mutating) =>
        FirstReply # "admin_only"

(***************************************************************************)
(* C5: an authorized /setvip for a user whose stored entitlement is still  *)
(* valid never decreases expiresAt: afterwards it is                       *)
(* max(expiresAt_old, now + days*86400), now being the handler's           *)
(* current_time and validity being what the handler's check found.         *)
(***************************************************************************)
C5_ActiveRegrantKeepsMax ==
    (GrantRan /\ found # {} /\ OldRow.expiry_time > times[2]) =>
        \E r \in RowsOf(GrantTarget) :
              /\ r.expiry_time = Max(OldRow.expiry_time, GrantExpiry)
              /\ r.expiry_time >= OldRow.expiry_time

C5_Witness ==
    /\ GrantRan
    /\ found # {}
    /\ OldRow.expiry_time > times[2]
    /\ OldRow.expiry_time > GrantExpiry
    /\ \E r \in RowsOf(GrantTarget) : r.expiry_time = OldRow.expiry_time

(***************************************************************************)
(* C6: an authorized /setvip with a valid package for a user whose stored  *)
(* entitlement has expired replaces it: afterwards expiresAt is exactly    *)
(* now + days*86400, the package is the requested label, the admin gets    *)
(* the success reply and the user is VIP again.                            *)
(***************************************************************************)
C6_ExpiredRegrantReplaces ==
    (GrantRan /\ found # {} /\ OldRow.expiry_time <= times[1]) =>
        /\ FirstReply = "vip_set"
        /\ \E r \in RowsOf(GrantTarget) :
              /\ r.expiry_time = GrantExpiry
              /\ r.package = OfferedLabel(msg.args[3])
              /\ r.expiry_time > times[2]

(***************************************************************************)
(* C7: an authorized /setvip <userId> <package> for a user with no stored  *)
(* entitlement creates exactly one entitlement                             *)
(* {userId, now + days(package)*86400, package}, with 1day=1 and 7days=7.  *)
(***************************************************************************)
C7_FirstGrantCreatesRow ==
    (GrantRan /\ found = {}) =>
        RowsOf(GrantTarget) = {[user_id |-> GrantTarget,
                                expiry_time |-> GrantExpiry,
                                package |-> OfferedLabel(msg.args[3])]}

\* the scenario of the specification: admin 1 grants user 42 "7days" at T0
C7_Witness ==
    /\ GrantRan
    /\ found = {}
    /\ msg.from_user.id = 1
    /\ times[1] = T0
    /\ [user_id |-> <<"4", "2">>, expiry_time |-> T0 + 604800,
        package |-> <<"7", "d", "a", "y", "s">>] \in vip_users

(***************************************************************************)
(* C8: is_vip(userId) at time now is (true, expiresAt) exactly when a row  *)
(* for str(userId) exists with expiresAt > now, and (false, 0) otherwise;  *)
(* expiresAt = now is not valid.                                           *)
(***************************************************************************)
C8_IsVipContract ==
    \A id \in {1, 42, 99} :
        LET valid == {r \in RowsOf(KeyOf(id)) : r.expiry_time > clock}
            got == is_vip(vip_users, id, clock)
        IN /\ valid # {} => \E r \in valid : got = [status |-> TRUE,
                                                    expiry_time |-> r.expiry_time]
           /\ valid = {} => got = [status |-> FALSE, expiry_time |-> 0]

\* /vipstatus of a user whose entitlement expires exactly now
C8_Witness ==
    /\ msg.cmd = "/vipstatus"
    /\ FirstReply = "not_vip"
    /\ \E r \in RowsOf(KeyOf(msg.from_user.id)) : r.expiry_time = times[1]
    /\ clock = times[1]

C10_RowsPersist ==
    [][/\ \A r \in vip_users :
            \/ r \in vip_users'
            \/ /\ msg'.cmd = "/removevip"
               /\ is_admin(msg')
               /\ Len(msg'.args) >= 2
               /\ msg'.args[2] = r.user_id
            \/ /\ msg'.cmd = "/setvip"
               /\ is_admin(msg')
               /\ Len(msg'.args) >= 3
               /\ msg'.args[2] = r.user_id
               /\ \E q \in vip_users' : q.user_id = r.user_id
       /\ (msg'.cmd = "/listvip" /\ is_admin(msg') /\ vip_users # {}) =>
            /\ Len(sent') = 1
            /\ sent'[1].text = "vip_list"
            /\ \A r \in vip_users :
                  r.expiry_time <= times'[1] =>
                      \E e \in sent'[1].data.entries :
                          /\ e.user_id = r.user_id
                          /\ e.status = "Expired"
                          /\ e.expiry = r.expiry_time
            /\ sent'[1].data.expired_count =
                  Cardinality({r \in vip_users : r.expiry_time <= times'[1]})]_vars

C10_Witness ==
    /\ msg.cmd = "/listvip"
    /\ FirstReply = "vip_list"
    /\ sent[1].data.expired_count >= 1
    /\ \E r \in vip_users : r.expiry_time <= times[1]

(***************************************************************************)
(* C11: for every whole number of seconds remaining = expiresAt - now the  *)
(* formatted text is "expired" when remaining <= 0; otherwise, with        *)
(* d = remaining div 86400, h = (remaining mod 86400) div 3600 and         *)
(* m = (remaining mod 3600) div 60, it is "d days, h hours" if d > 0, else *)
(* "h hours, m minutes" if h > 0, else "m minutes".  So 90000 gives        *)
(* "1 days, 1 hours", 5400 "1 hours, 30 minutes", 45 "0 minutes" and -5    *)
(* "expired".                                                              *)
(***************************************************************************)
C11_Text(kind, a, b) == [kind |-> kind, a |-> a, b |-> b]

C11_RemainingText ==
    msg.cmd = "get_vip_time_remaining" =>
        LET remaining == sent[1].data.expiry_time - times[1]
            text == sent[1].data.text
            d == remaining \div 86400
            h == (remaining % 86400) \div 3600
            m == (remaining % 3600) \div 60
        IN /\ remaining <= 0 => text = C11_Text("expired", 0, 0)
           /\ remaining > 0 /\ d > 0 => text = C11_Text("days, hours", d, h)
           /\ remaining > 0 /\ d = 0 /\ h > 0 => text = C11_Text("hours, minutes", h, m)
           /\ remaining > 0 /\ d = 0 /\ h = 0 => text = C11_Text("minutes", m, 0)
           /\ remaining = 90000 => text = C11_Text("days, hours", 1, 1)
           /\ remaining = 5400 => text = C11_Text("hours, minutes", 1, 30)
           /\ remaining = 45 => text = C11_Text("minutes", 0, 0)
           /\ remaining = -5 => text = C11_Text("expired", 0, 0)

C11_Witness ==
    /\ msg.cmd = "get_vip_time_remaining"
    /\ sent[1].data.expiry_time - times[1] = 90000
    /\ sent[1].data.text = C11_Text("days, hours", 1, 1)

(***************************************************************************)
(* C12: a /start <contentId> whose contentId is not in the registry (never *)
(* created, or created and deleted since) gets the "invalid or has         *)
(* expired" reply whether or not the sender is a VIP, ends without an      *)
(* unhandled error and changes neither table.                              *)
(***************************************************************************)
C12_UnknownContentRejected ==
    [][(/\ msg'.cmd = "/start"
        /\ Len(msg'.args) > 1
        /\ \A v \in videos : v.id # msg'.args[2])
       => /\ sent' = <<Msg(msg'.chat_id, "invalid_link", NoData, TRUE)>>
          /\ ~raised'
          /\ vip_users' = vip_users
          /\ videos' = videos]_vars

\* the id the registry can hold is asked for by a valid VIP while it is absent
C12_Witness ==
    /\ msg.cmd = "/start"
    /\ Len(msg.args) > 1
    /\ msg.args[2] \in CoreScope.video_ids
    /\ videos = {}
    /\ FirstReply = "invalid_link"
    /\ \E r \in RowsOf(KeyOf(msg.from_user.id)) : r.expiry_time > times[2]

(***************************************************************************)
(* C13: an authorized /removevip <userId> for a user without an            *)
(* entitlement row and an authorized /delvideo <contentId> for an id       *)
(* without a row each get the not-found reply, raise no error and leave    *)
(* both tables as they were; so the same delete issued twice in a row      *)
(* gives success and then not-found, and the second leaves the store as    *)
(* the first left it.                                                      *)
(***************************************************************************)
C13_Authorized == is_admin(msg') /\ Len(msg'.args) >= 2

C13_Untouched == ~raised' /\ vip_users' = vip_users /\ videos' = videos

C13_DeleteOfMissingRow ==
    [][/\ (/\ msg'.cmd = "/removevip"
           /\ C13_Authorized
           /\ \A r \in vip_users : r.user_id # msg'.args[2])
          => /\ sent' = <<Msg(msg'.chat_id, "no_vip_status",
                              [user |-> msg'.args[2]], TRUE)>>
             /\ C13_Untouched
       /\ (/\ msg'.cmd = "/delvideo"
           /\ C13_Authorized
           /\ \A v \in videos : v.id # msg'.args[2])
          => /\ sent' = <<Msg(msg'.chat_id, "video_not_found",
                              [id |-> msg'.args[2]], TRUE)>>
             /\ C13_Untouched
       /\ (/\ msg' = msg
           /\ FirstReply \in {"vip_removed", "video_deleted"})
          => /\ sent'[1].text \in {"no_vip_status", "video_not_found"}
             /\ C13_Untouched]_vars

\* a /removevip that finds no row for its user while another user has one
C13_Witness ==
    /\ msg.cmd = "/removevip"
    /\ FirstReply = "no_vip_status"
    /\ ~raised
    /\ vip_users # {}

(***************************************************************************)
(* C16: after an authorized /setvip with a valid package for a user whose  *)
(* entitlement is active, the stored package is the label of this latest   *)
(* command, also when expiresAt keeps the older, larger value.             *)
(***************************************************************************)
C16_LatestPackageLabel ==
    (GrantRan /\ found # {} /\ OldRow.expiry_time > times[2]) =>
        /\ RowsOf(GrantTarget) # {}
        /\ \A r \in RowsOf(GrantTarget) : r.package = OfferedLabel(msg.args[3])

\* a "1day" grant on top of a running "7days": the expiry stays, the label goes
C16_Witness ==
    /\ GrantRan
    /\ found # {}
    /\ OldRow.expiry_time > times[2]
    /\ OldRow.package = <<"7", "d", "a", "y", "s">>
    /\ OldRow.expiry_time > GrantExpiry
    /\ RowsOf(GrantTarget) = {[user_id |-> GrantTarget,
                               expiry_time |-> OldRow.expiry_time,
                               package |-> <<"1", "d", "a", "y">>]}

(***************************************************************************)
(* C18 as stated: whenever /start, /vipstatus or /listvip reports a user   *)
(* as having active VIP status, the remaining-time text of that reply is   *)
(* never "expired", also when the clock advances between the validity      *)
(* check and the formatting call.                                          *)
(***************************************************************************)
\* what the reply just sent reports about users it calls active
C18_Reported ==
    IF msg.cmd = "/listvip" /\ FirstReply = "vip_list"
    THEN {[remaining |-> e.remaining, expiry |-> e.expiry] :
              e \in {x \in sent[1].data.entries : x.status = "Active"}}
    ELSE IF msg.cmd = "/vipstatus" /\ FirstReply = "vip_active"
    THEN {[remaining |-> sent[1].data.remaining, expiry |-> sent[1].data.expiry]}
    ELSE IF msg.cmd = "/start" /\ FirstReply = "video"
    THEN {[remaining |-> sent[1].data.remaining, expiry |-> r.expiry_time] :
              r \in RowsOf(KeyOf(msg.from_user.id))}
    ELSE IF msg.cmd = "/start" /\ FirstReply = "welcome" /\ sent[1].data.vip
    THEN {[remaining |-> sent[1].data.remaining, expiry |-> r.expiry_time] :
              r \in RowsOf(KeyOf(msg.from_user.id))}
    ELSE {}

C18_NeverExpiredText ==
    \A a \in C18_Reported : a.remaining.kind # "expired"

(***************************************************************************)
(* C18, amended: whenever /start, /vipstatus or /listvip reports a user as *)
(* having active VIP status, that user's expiresAt was later than the time *)
(* read by the validity check, and the remaining-time text of the reply is *)
(* "expired" exactly when the clock has reached expiresAt by the time the  *)
(* formatting call reads it; when no time passes between the two reads the *)
(* text is never "expired".                                                *)
(***************************************************************************)
C18_ExpiredOnlyByDrift ==
    \A a \in C18_Reported :
        /\ a.expiry > times[1]
        /\ a.remaining.kind = "expired" <=> a.expiry <= times[2]
        /\ times[1] = times[2] => a.remaining.kind # "expired"

\* active at the check, expired one second later at the formatting call
C18_Witness ==
    /\ msg.cmd = "/vipstatus"
    /\ FirstReply = "vip_active"
    /\ times[1] < times[2]
    /\ sent[1].data.expiry = times[2]
    /\ sent[1].data.remaining.kind = "expired"

(***************************************************************************)
(* C19: the expiry that the /setvip success reply reports to the admin,    *)
(* and the one the notification reports to the user, equal the expiresAt   *)
(* stored for the target user after the command, for a first grant and for *)
(* a re-grant of an active entitlement.                                    *)
(***************************************************************************)
C19_ReportedExpiryIsStored ==
    (/\ GrantRan
     /\ FirstReply = "vip_set"
     /\ found = {} \/ OldRow.expiry_time > times[2])
    => \A r \in RowsOf(GrantTarget) :
           \A i \in 1..Len(sent) :
               sent[i].text \in {"vip_set", "vip_granted"}
                   => sent[i].data.expiry = r.expiry_time

(***************************************************************************)
(* C14: when, during an authorized /setvip or /removevip, the notification *)
(* to the target user fails (the user cannot be reached, or the userId is  *)
(* not a number), the failure is caught: the mutation already committed    *)
(* stays, the success reply already sent to the admin is the primary       *)
(* response, and the notification failure gets the admin no error reply.   *)
(* The failure looked at is the notification's: what the handler sent to   *)
(* the admin's own chat (the success reply, the warning) was delivered.    *)
(***************************************************************************)
ErrorReplies == {"error_setting_vip", "error_removing_vip"}

\* the latest command committed, told the admin so, and could not notify
NotifyFailed ==
    /\ msg.cmd \in {"/setvip", "/removevip"}
    /\ FirstReply \in {"vip_set", "vip_removed"}
    /\ faults.db = 0
    /\ \A i \in 1..Len(sent) :
           sent[i].text \in {"vip_set", "vip_removed", "could_not_notify"}
               => sent[i].ok
    /\ ~int(msg.args[2]).ok \/ ~faults.user

C14_NotifyFailureIsCaught ==
    NotifyFailed =>
        /\ ~raised
        /\ sent[1].ok
        /\ \A i \in 1..Len(sent) : sent[i].text \notin ErrorReplies
        /\ msg.cmd = "/setvip" =>
               \E r \in RowsOf(msg.args[2]) :
                   /\ r.package = OfferedLabel(msg.args[3])
                   /\ r.expiry_time >= GrantExpiry
        /\ msg.cmd = "/removevip" => found # {} /\ RowsOf(msg.args[2]) = {}

\* user 42 cannot be reached while the admin grants them a package
C14_Witness ==
    /\ NotifyFailed
    /\ msg.cmd = "/setvip"
    /\ int(msg.args[2]).ok
    /\ ~faults.user
    /\ \E i \in 1..Len(sent) : sent[i].text = "vip_granted" /\ ~sent[i].ok
    /\ RowsOf(msg.args[2]) # {}

(***************************************************************************)
(* C15: if the read of the store fails while /start or /vipstatus          *)
(* evaluates the sender's entitlement, the operation ends with the error   *)
(* and the sender is not sent the not-VIP reply (payment instructions, "no *)
(* VIP status") because of it; that reply is sent only when the read       *)
(* succeeded and found no valid entitlement.                               *)
(***************************************************************************)
\* the position of the entitlement read among the handler's store accesses
EntitlementRead ==
    IF msg.cmd = "/start" /\ Len(msg.args) > 1 THEN 2 ELSE 1

EntitlementReadFailed ==
    /\ msg.cmd \in {"/start", "/vipstatus"}
    /\ faults.db = EntitlementRead
    /\ db_ops = EntitlementRead

C15_ReadFailureIsNotNotVip ==
    /\ EntitlementReadFailed => raised /\ sent = <<>>
    /\ (msg.cmd \in {"/start", "/vipstatus"}
        /\ FirstReply \in {"payment_required", "not_vip"})
       => /\ faults.db = 0 \/ faults.db > EntitlementRead
          /\ \A r \in RowsOf(KeyOf(msg.from_user.id)) : r.expiry_time <= times[1]

\* a valid VIP opens an existing video while the entitlement read fails
C15_Witness ==
    /\ EntitlementReadFailed
    /\ msg.cmd = "/start"
    /\ Len(msg.args) > 1
    /\ \E v \in videos : v.id = msg.args[2]
    /\ \E r \in RowsOf(KeyOf(msg.from_user.id)) : r.expiry_time > times[1]
    /\ raised

(***************************************************************************)
(* C20: whenever /setvip ends with the "Error setting VIP status" reply or *)
(* /removevip with the "Error removing VIP status" reply, the entitlement  *)
(* table is the same as before the command, also when the failure is a     *)
(* send that fails after the commit.                                       *)
(***************************************************************************)
C20_ErrorReplyMeansNoMutation ==
    [][(/\ msg'.cmd \in {"/setvip", "/removevip"}
        /\ \E i \in 1..Len(sent') : sent'[i].text \in ErrorReplies)
       => vip_users' = vip_users]_vars

(***************************************************************************)
(* C17: the locator of an existing content item never changes.  /addvideo  *)
(* either persists a new row under an id that was not in the registry      *)
(* before the command or, when the generated id collides, fails without    *)
(* altering any existing row; an id comes to map to another locator only   *)
(* through /delvideo and a later create.                                   *)
(***************************************************************************)
VideoIds(vids) == {v.id : v \in vids}

C17_LocatorImmutable ==
    [][/\ \A v \in videos :
              \/ v \in videos'
              \/ /\ msg'.cmd = "/delvideo"
                 /\ msg'.args = <<"/delvideo", v.id>>
                 /\ v.id \notin VideoIds(videos')
       /\ msg'.cmd = "/addvideo" =>
              \/ videos' = videos
              \/ \E w \in videos' :
                     /\ videos' = videos \cup {w}
                     /\ w.id \notin VideoIds(videos)
                     /\ w.url = msg'.args[2]
       /\ (msg'.cmd = "/addvideo" /\ raised') => videos' = videos /\ sent' = <<>>
       /\ Cardinality(VideoIds(videos')) = Cardinality(videos')]_vars

\* the generated id is taken by a row with another url: the command fails
C17_Witness ==
    /\ msg.cmd = "/addvideo"
    /\ Len(msg.args) > 1
    /\ raised
    /\ sent = <<>>
    /\ \E v \in videos : v.url # msg.args[2]
    /\ Cardinality(videos) = 1
====
